---- MODULE Spec2Model ----
(***************************************************************************)
(* Player Impact Analyzer (scripts/PlayerPitchControlAnalysis.py) as a     *)
(* state machine.  The Analyzer object is the state; every public method   *)
(* is one action.  Tracking tables live in a heap of table objects so that *)
(* copying and aliasing are visible.  The field generator                  *)
(* (Metrica_PitchControl.generate_pitch_control_for_event) is not part of  *)
(* the two source files; it is modelled from sections 4.1-4.3 of the       *)
(* specification in fixed-point integer arithmetic.  The drawing layer     *)
(* (scripts/Metrica_Viz.py) receives what plot_pitch_control_difference    *)
(* hands it; its colour-map conversion is modelled in exact fractions.     *)
(*                                                                         *)
(* Units: positions in half metres, time in ticks, probabilities in        *)
(* 1/Scale.                                                                *)
(***************************************************************************)
EXTENDS Integers, Sequences, FiniteSets, TLC

VARIABLES
    heap,                    \* table objects: reference -> table (or Free)
    df_dict,                 \* self.df_dict: team name -> table reference
    params,                  \* self.params
    events,                  \* self.events: event id -> [Start Frame, Team]
    event_id,                \* self.event_id
    team_player_to_analyze,  \* self.team_player_to_analyze
    player_to_analyze,       \* self.player_to_analyze (a typed Python value)
    field_dimens,            \* self.field_dimens
    n_grid_cells_x,          \* self.n_grid_cells_x
    event_pitch_control,     \* self.event_pitch_control (baseline surface)
    xgrid,                   \* self.xgrid
    ygrid,                   \* self.ygrid
    call,                    \* the last method call: name and arguments
    ret,                     \* what the last call returned or raised
    tmp_df_dict,             \* the dict the last call handed to the generator
    effects,                 \* what the last call did: copies, warnings, ...
    remembered,              \* history: an earlier call and what it returned
    threads,                 \* calls in progress on other threads: locals and position
    race,                    \* a run of the race model: inputs, accumulators, results
    figure                   \* what the last call handed to the drawing layer, and the drawing

analyzer == <<df_dict, params, events, event_id, team_player_to_analyze,
              player_to_analyze, field_dimens, n_grid_cells_x,
              event_pitch_control, xgrid, ygrid>>

vars == <<heap, df_dict, params, events, event_id, team_player_to_analyze,
          player_to_analyze, field_dimens, n_grid_cells_x,
          event_pitch_control, xgrid, ygrid, call, ret, tmp_df_dict, effects,
          remembered, threads, race, figure>>

(***************************************************************************)
(* Bounds of the model.                                                    *)
(***************************************************************************)
\* player x positions are 4 * (-MaxCoord .. MaxCoord) half metres
MaxCoord == 1
\* fixed-point resolution of a probability
Scale == 100

(***************************************************************************)
(* Values.  A float cell of a table is a number or NaN.                    *)
(***************************************************************************)
Num(v) == [def |-> TRUE, v |-> v]
NaN == [def |-> FALSE, v |-> 0]
isnan(c) == ~c.def
\* a + b on floats
Plus(a, b) == IF a.def /\ b.def THEN Num(a.v + b.v) ELSE NaN

\* the one element of a singleton set: Only({F(v) : v \in {e}}) is F(e) with e
\* evaluated once
Only(S) == CHOOSE v \in S : TRUE

Free == [free |-> TRUE]
None == [kind |-> "None"]

\* Python values a caller may pass as player_to_analyze
PyInt(n) == [type |-> "int", val |-> n]
PyStr(s) == [type |-> "str", val |-> s]
PyFloat(n) == [type |-> "float", val |-> n]

\* str(): "1" for the int 1, the string itself for a str, "1.0" for 1.0
IntDigits == [n \in 1..3 |-> CASE n = 1 -> "1" [] n = 2 -> "2" [] n = 3 -> "3"]
FloatDigits == [n \in 1..3 |-> CASE n = 1 -> "1.0" [] n = 2 -> "2.0" [] n = 3 -> "3.0"]
str(p) ==
    CASE p.type = "int" -> IntDigits[p.val]
      [] p.type = "str" -> p.val
      [] p.type = "float" -> FloatDigits[p.val]

\* f"{team}_{player}_{field}": the column name, kept as its "_"-separated parts
column(team, player, field) == <<team, str(player), field>>

Teams == {"Home", "Away"}
Roster == [t \in Teams |-> IF t = "Home" THEN {"1", "2"} ELSE {"3"}]
Fields == {"x", "y", "vx", "vy"}
Frames == {1, 2}
Columns(t) == {<<t, p, f>> : p \in Roster[t], f \in Fields}
                 \cup {<<"ball", "x">>, <<"ball", "y">>}

(***************************************************************************)
(* Field generator, sections 4.1-4.3 of the specification.                 *)
(***************************************************************************)
DefaultParams ==
    [max_player_speed |-> 2, reaction_time |-> 1, int_dt |-> 1,
     max_int_time |-> 6, model_converge_tol |-> 1]

\* the generator's own defaults, used when a caller passes no field_dimen
\* and no n_grid_cells_x
GeneratorDefaults == [field_dimen |-> <<6, 2>>, n_grid_cells_x |-> 3]

Abs(n) == IF n < 0 THEN -n ELSE n
CeilDiv(a, b) == (a + b - 1) \div b

\* the straight-line distance sqrt(dx^2 + dy^2), rounded up; the search
\* starts at max(|dx|, |dy|), which never exceeds it
RECURSIVE CeilSqrtFrom(_, _)
CeilSqrtFrom(n, k) == IF k * k >= n THEN k ELSE CeilSqrtFrom(n, k + 1)
Distance(dx, dy) ==
    CeilSqrtFrom(dx * dx + dy * dy, IF Abs(dx) >= Abs(dy) THEN Abs(dx) ELSE Abs(dy))

\* a sentinel above the integration horizon
Infinity(prm) == 2 * prm.max_int_time + 1

Present(m) == ~isnan(m.x) /\ ~isnan(m.y) /\ ~isnan(m.vx) /\ ~isnan(m.vy)

\* an absent mover is taken to stand at the origin
time_to_reach_absent_at_origin(m, target, prm) ==
    IF m.x.v = target[1] /\ m.y.v = target[2] THEN 0
    ELSE LET rx == m.x.v + m.vx.v * prm.reaction_time
             ry == m.y.v + m.vy.v * prm.reaction_time
         IN  prm.reaction_time
                 + CeilDiv(Distance(target[1] - rx, target[2] - ry),
                           prm.max_player_speed)

\* the reaction time is spent even by a mover that stands on the target
time_to_reach_always_reacting(m, target, prm) ==
    IF ~Present(m) THEN Infinity(prm)
    ELSE LET rx == m.x.v + m.vx.v * prm.reaction_time
             ry == m.y.v + m.vy.v * prm.reaction_time
         IN  prm.reaction_time
                 + CeilDiv(Distance(target[1] - rx, target[2] - ry),
                           prm.max_player_speed)

\* 4.1: keep the current velocity for reaction_time, then run straight to the
\* target at max_player_speed; an absent mover never arrives; a mover that
\* stands on the target is there at once
time_to_reach(m, target, prm) ==
    IF ~Present(m) THEN Infinity(prm)
    ELSE IF m.x.v = target[1] /\ m.y.v = target[2] THEN 0
    ELSE LET rx == m.x.v + m.vx.v * prm.reaction_time
             ry == m.y.v + m.vy.v * prm.reaction_time
         IN  prm.reaction_time
                 + CeilDiv(Distance(target[1] - rx, target[2] - ry),
                           prm.max_player_speed)

SetMin(S, dflt) == IF S = {} THEN dflt ELSE CHOOSE a \in S : \A b \in S : a <= b

\* logistic-shaped probability (in 1/Scale) of controlling the ball at time
\* T for a player arriving at time t
Sigmoid(d) ==
    CASE d <= -2 -> 0
      [] d = -1 -> Scale \div 4
      [] d = 0 -> Scale \div 2
      [] d = 1 -> (3 * Scale) \div 4
      [] d >= 2 -> Scale

MaxSteps(prm) == prm.max_int_time \div prm.int_dt

\* 4.2: integrate both accumulators until they sum to 1 - tol or the horizon
\* one step of the integration at time T: acc is <<PA, PD, steps taken>>
IntegrationStep(acc, tA, tD, prm) ==
    <<acc[1] + ((Scale - acc[1] - acc[2]) * Sigmoid(acc[3] * prm.int_dt - tA) * prm.int_dt)
                  \div (2 * Scale),
      acc[2] + ((Scale - acc[1] - acc[2]) * Sigmoid(acc[3] * prm.int_dt - tD) * prm.int_dt)
                  \div (2 * Scale),
      acc[3] + 1>>

\* the horizon is passed one step late
Stop_one_late(acc, prm) ==
    acc[1] + acc[2] >= Scale - prm.model_converge_tol \/ acc[3] > MaxSteps(prm)

\* the integration stops when the accumulators have converged or at the horizon
Stop(acc, prm) ==
    acc[1] + acc[2] >= Scale - prm.model_converge_tol \/ acc[3] >= MaxSteps(prm)

RECURSIVE Integrate(_, _, _, _)
Integrate(acc, tA, tD, prm) ==
    IF Stop(acc, prm)
    THEN acc
    ELSE Only({Integrate(next, tA, tD, prm) :
                   next \in {IntegrationStep(acc, tA, tD, prm)}})

\* the attacking accumulator over the defending one
ControlProbability_odds(acc) ==
    IF acc[1] + acc[2] = 0 THEN Scale \div 2
    ELSE IF acc[2] = 0 THEN Scale
    ELSE (acc[1] * Scale) \div acc[2]

\* an undecided cell goes to the defending team
ControlProbability_no_default(acc) ==
    IF acc[1] + acc[2] = 0 THEN 0
    ELSE (acc[1] * Scale) \div (acc[1] + acc[2])

\* attacking accumulator / (attacking + defending accumulators); 0.5 when
\* nobody gained any control
ControlProbability(acc) ==
    IF acc[1] + acc[2] = 0 THEN Scale \div 2
    ELSE (acc[1] * Scale) \div (acc[1] + acc[2])

attacking_control_probability(att_times, def_times, prm) ==
    Only({ControlProbability(acc) :
              acc \in {Only({Integrate(<<0, 0, 0>>, tA, tD, prm) :
                                tA \in {SetMin(att_times, Infinity(prm))},
                                tD \in {SetMin(def_times, Infinity(prm))}})}})

\* the movers of team t in one row of a tracking table
PlayersOf(row, t) ==
    {c[2] : c \in {c \in DOMAIN row : Len(c) = 3 /\ c[1] = t /\ c[3] = "x"}}
Mover(row, t, p) ==
    [x |-> row[<<t, p, "x">>], y |-> row[<<t, p, "y">>],
     vx |-> row[<<t, p, "vx">>], vy |-> row[<<t, p, "vy">>]]

GridCellsY(field_dimen, ngx) == (ngx * field_dimen[2]) \div field_dimen[1]
XGrid(field_dimen, ngx) ==
    [i \in 1..ngx |-> ((2 * i - 1) * field_dimen[1]) \div ngx - field_dimen[1]]
YGrid(field_dimen, ngx) ==
    LET ngy == GridCellsY(field_dimen, ngx)
    IN  [j \in 1..ngy |-> ((2 * j - 1) * field_dimen[2]) \div ngy - field_dimen[2]]

\* 4.3: dfs maps each team to its table (frame -> row)
\* the present movers of the teams ts in the rows of one frame
OnPitch(rows, ts) ==
    {m \in UNION {{Mover(rows[t], t, p) : p \in PlayersOf(rows[t], t)} : t \in ts} :
         Present(m)}

Surface(attackers, defenders, xs, ys, prm) ==
    [i \in 1..Len(xs) |-> [j \in 1..Len(ys) |->
        attacking_control_probability(
            {time_to_reach(m, <<xs[i], ys[j]>>, prm) : m \in attackers},
            {time_to_reach(m, <<xs[i], ys[j]>>, prm) : m \in defenders}, prm)]]

generate_pitch_control_for_event(eid, evs, dfs, prm, field_dimen, ngx) ==
    LET frame == evs[eid]["Start Frame"]
        attacking == evs[eid]["Team"]
    IN  Only({[surface |-> Surface(OnPitch(rows, {attacking}),
                                   OnPitch(rows, DOMAIN rows \ {attacking}),
                                   xs, ys, prm),
               xgrid |-> xs, ygrid |-> ys] :
                 rows \in {[t \in DOMAIN dfs |-> dfs[t][frame]]},
                 xs \in {XGrid(field_dimen, ngx)},
                 ys \in {YGrid(field_dimen, ngx)}})

(***************************************************************************)
(* The Analyzer: PlayerPitchControlAnalysisPlayer.                         *)
(***************************************************************************)
ValueError(msg) == [kind |-> "error", exc |-> "ValueError", msg |-> msg]
IsError(r) == r.kind = "error"

NoEffects == [copies |-> 0, warnings |-> 0, generated |-> 0]

event_frame == events[event_id]["Start Frame"]

\* the tables a dict of references stands for
Deref(h, d) == [t \in DOMAIN d |-> h[d[t]]]

\* "_vx" in index, for a column name kept as its parts
HasVx(index) == \E k \in 2..Len(index) : index[k] = "vx"

\* every velocity column counts, defined or not
get_players_on_pitch_any_value ==
    LET data_row == heap[df_dict[team_player_to_analyze]][event_frame]
    IN  {index[2] : index \in {c \in DOMAIN data_row : HasVx(c)}}

get_players_on_pitch ==
    LET data_row == heap[df_dict[team_player_to_analyze]][event_frame]
    IN  {index[2] : index \in {c \in DOMAIN data_row :
                                   HasVx(c) /\ ~isnan(data_row[c])}}

\* the messages of the four raise statements
PlayerTypeMessage == "player_to_analyze must be an integer or a string"
TeamMessage == "team_player_to_analyze must equal the keys of df_dict"
NotOnPitchMessage ==
    "player_to_analyze is either not on the correct team, or was not on the pitch at the time of the event"
ModeMessage == "replace_function must be either 'movement', 'presence' or 'location'"

\* the team is looked at before the type of the id
validate_inputs_team_first ==
    IF team_player_to_analyze \notin DOMAIN df_dict
    THEN ValueError(TeamMessage)
    ELSE IF player_to_analyze.type \notin {"str", "int"}
    THEN ValueError(PlayerTypeMessage)
    ELSE IF str(player_to_analyze) \notin get_players_on_pitch
    THEN ValueError(NotOnPitchMessage)
    ELSE None

\* the players on the pitch are looked up before the team is checked:
\* self.df_dict[team] raises KeyError for an unknown team
validate_inputs_lookup_first ==
    IF player_to_analyze.type \notin {"str", "int"}
    THEN ValueError(PlayerTypeMessage)
    ELSE IF team_player_to_analyze \notin DOMAIN df_dict
    THEN [kind |-> "error", exc |-> "KeyError", msg |-> team_player_to_analyze]
    ELSE IF str(player_to_analyze) \notin get_players_on_pitch
    THEN ValueError(NotOnPitchMessage)
    ELSE None

validate_inputs ==
    IF player_to_analyze.type \notin {"str", "int"}
    THEN ValueError(PlayerTypeMessage)
    ELSE IF team_player_to_analyze \notin DOMAIN df_dict
    THEN ValueError(TeamMessage)
    ELSE IF str(player_to_analyze) \notin get_players_on_pitch
    THEN ValueError(NotOnPitchMessage)
    ELSE None

\* no copy: the table itself is handed on
df_copy_shared(h, ref) == [heap |-> h, ref |-> ref]

\* df.copy(): a new table object with the same content
df_copy(h, ref) == [heap |-> [h EXCEPT !["tmp"] = h[ref]], ref |-> "tmp"]

\* df_tmp[column] = value: the whole column is overwritten
at_set_every_frame(h, ref, frame, col, value) ==
    [h EXCEPT ![ref] = [f \in DOMAIN h[ref] |-> [h[ref][f] EXCEPT ![col] = value]]]

\* df_tmp.at[event_frame, column] = value
at_set(h, ref, frame, col, value) == [h EXCEPT ![ref][frame][col] = value]

RECURSIVE at_set_all(_, _, _, _)
at_set_all(h, ref, frame, writes) ==
    IF writes = <<>> THEN h
    ELSE at_set_all(at_set(h, ref, frame, writes[1][1], writes[1][2]),
                    ref, frame, Tail(writes))

\* the heap when a call starts: the last call's copy is gone
Untouched == [heap EXCEPT !["tmp"] = Free]

\* what a failed call leaves behind
Raised(err, eff) ==
    [ret |-> err, heap |-> Untouched,
     tmp_df_dict |-> None, effects |-> eff]

\* the copy is made, but the writes go to the stored table
Regenerate_writing_stored(writes, eff) ==
    LET team == team_player_to_analyze
        Handed(c) ==
            [heap |-> at_set_all(c.heap, df_dict[team], event_frame, writes),
             tmp_df_dict |-> [df_dict EXCEPT ![team] = c.ref]]
        Generated(hd) ==
            generate_pitch_control_for_event(
                event_id, events, Deref(hd.heap, hd.tmp_df_dict), params,
                field_dimens, n_grid_cells_x)
        Returned(hd, g) ==
            [ret |-> [kind |-> "surface", surface |-> g.surface,
                      xgrid |-> g.xgrid, ygrid |-> g.ygrid],
             heap |-> hd.heap, tmp_df_dict |-> hd.tmp_df_dict,
             effects |-> [eff EXCEPT !.copies = 1, !.generated = 1]]
    IN  Only({Only({Returned(hd, g) : g \in {Generated(hd)}}) :
                 hd \in {Handed(df_copy(Untouched, df_dict[team]))}})

\* the surface of the previous call is kept and returned again
Regenerate_reusing_last(writes, eff) ==
    LET team == team_player_to_analyze
        Handed(c) ==
            [heap |-> at_set_all(c.heap, c.ref, event_frame, writes),
             tmp_df_dict |-> [df_dict EXCEPT ![team] = c.ref]]
        Generated(hd) ==
            IF ret.kind = "surface" THEN [surface |-> ret.surface,
                                          xgrid |-> ret.xgrid, ygrid |-> ret.ygrid]
            ELSE generate_pitch_control_for_event(
                     event_id, events, Deref(hd.heap, hd.tmp_df_dict), params,
                     field_dimens, n_grid_cells_x)
        Returned(hd, g) ==
            [ret |-> [kind |-> "surface", surface |-> g.surface,
                      xgrid |-> g.xgrid, ygrid |-> g.ygrid],
             heap |-> hd.heap, tmp_df_dict |-> hd.tmp_df_dict,
             effects |-> [eff EXCEPT !.copies = 1, !.generated = 1]]
    IN  Only({Only({Returned(hd, g) : g \in {Generated(hd)}}) :
                 hd \in {Handed(df_copy(Untouched, df_dict[team]))}})

\* tmp_df_dict = self.df_dict.copy(); the analysed team's table is copied,
\* written and put into tmp_df_dict; then the surface is generated
Regenerate(writes, eff) ==
    LET team == team_player_to_analyze
        Handed(c) ==
            [heap |-> at_set_all(c.heap, c.ref, event_frame, writes),
             tmp_df_dict |-> [df_dict EXCEPT ![team] = c.ref]]
        Generated(hd) ==
            generate_pitch_control_for_event(
                event_id, events, Deref(hd.heap, hd.tmp_df_dict), params,
                field_dimens, n_grid_cells_x)
        Returned(hd, g) ==
            [ret |-> [kind |-> "surface", surface |-> g.surface,
                      xgrid |-> g.xgrid, ygrid |-> g.ygrid],
             heap |-> hd.heap, tmp_df_dict |-> hd.tmp_df_dict,
             effects |-> [eff EXCEPT !.copies = 1, !.generated = 1]]
    IN  Only({Only({Returned(hd, g) : g \in {Generated(hd)}}) :
                 hd \in {Handed(df_copy(Untouched, df_dict[team]))}})

calculate_pitch_control_replaced_velocity(replace_x_velocity, replace_y_velocity) ==
    LET v == validate_inputs
        team == team_player_to_analyze
        player == player_to_analyze
    IN  IF IsError(v) THEN Raised(v, NoEffects)
        ELSE Regenerate(
                 << <<column(team, player, "vx"), replace_x_velocity>>,
                    <<column(team, player, "vy"), replace_y_velocity>> >>,
                 NoEffects)

\* only the position is made undefined
calculate_pitch_control_without_player_position_only ==
    LET v == validate_inputs
        team == team_player_to_analyze
        player == player_to_analyze
    IN  IF IsError(v) THEN Raised(v, NoEffects)
        ELSE Regenerate(
                 << <<column(team, player, "x"), NaN>>,
                    <<column(team, player, "y"), NaN>> >>,
                 NoEffects)

\* the removed player is parked at the origin
calculate_pitch_control_without_player_zeroed ==
    LET v == validate_inputs
        team == team_player_to_analyze
        player == player_to_analyze
    IN  IF IsError(v) THEN Raised(v, NoEffects)
        ELSE Regenerate(
                 << <<column(team, player, "x"), Num(0)>>,
                    <<column(team, player, "y"), Num(0)>>,
                    <<column(team, player, "vx"), Num(0)>>,
                    <<column(team, player, "vy"), Num(0)>> >>,
                 NoEffects)

calculate_pitch_control_without_player ==
    LET v == validate_inputs
        team == team_player_to_analyze
        player == player_to_analyze
    IN  IF IsError(v) THEN Raised(v, NoEffects)
        ELSE Regenerate(
                 << <<column(team, player, "x"), NaN>>,
                    <<column(team, player, "y"), NaN>>,
                    <<column(team, player, "vx"), NaN>>,
                    <<column(team, player, "vy"), NaN>> >>,
                 NoEffects)

\* the warning is emitted before the inputs are validated
calculate_pitch_control_new_location_warn_first(relative_x_change, relative_y_change, replace_velocity, replace_x_velocity, replace_y_velocity) ==
    LET v == validate_inputs
        team == team_player_to_analyze
        player == player_to_analyze
        warn == replace_velocity /\ replace_x_velocity = Num(0)
                                 /\ replace_y_velocity = Num(0)
        eff == [NoEffects EXCEPT !.warnings = IF warn THEN 1 ELSE 0]
    IN  IF IsError(v) THEN Raised(v, eff)
        ELSE Regenerate(
                 << <<column(team, player, "x"), relative_x_change>>,
                    <<column(team, player, "y"), relative_y_change>>,
                    <<column(team, player, "vx"), replace_x_velocity>>,
                    <<column(team, player, "vy"), replace_y_velocity>> >>,
                 eff)

\* the warning looks at the x component only
calculate_pitch_control_new_location_warn_on_x(relative_x_change, relative_y_change, replace_velocity, replace_x_velocity, replace_y_velocity) ==
    LET v == validate_inputs
        team == team_player_to_analyze
        player == player_to_analyze
        warn == replace_velocity /\ replace_x_velocity = Num(0)
        eff == [NoEffects EXCEPT !.warnings = IF warn THEN 1 ELSE 0]
    IN  IF IsError(v) THEN Raised(v, NoEffects)
        ELSE Regenerate(
                 << <<column(team, player, "x"), relative_x_change>>,
                    <<column(team, player, "y"), relative_y_change>>,
                    <<column(team, player, "vx"), replace_x_velocity>>,
                    <<column(team, player, "vy"), replace_y_velocity>> >>,
                 eff)

calculate_pitch_control_new_location(relative_x_change, relative_y_change, replace_velocity, replace_x_velocity, replace_y_velocity) ==
    LET v == validate_inputs
        team == team_player_to_analyze
        player == player_to_analyze
        warn == replace_velocity /\ replace_x_velocity = Num(0)
                                 /\ replace_y_velocity = Num(0)
        eff == [NoEffects EXCEPT !.warnings = IF warn THEN 1 ELSE 0]
    IN  IF IsError(v) THEN Raised(v, NoEffects)
        ELSE Regenerate(
                 << <<column(team, player, "x"), relative_x_change>>,
                    <<column(team, player, "y"), relative_y_change>>,
                    <<column(team, player, "vx"), replace_x_velocity>>,
                    <<column(team, player, "vy"), replace_y_velocity>> >>,
                 eff)

\* numpy's a - b for two 2-D arrays, with broadcasting
Shape(a) == <<Len(a), IF Len(a) = 0 THEN 0 ELSE Len(a[1])>>
Broadcastable(n, m) == n = m \/ n = 1 \/ m = 1
Max(n, m) == IF n >= m THEN n ELSE m
\* the two arrays are added
Subtract_added(a, b) ==
    LET sa == Shape(a)
        sb == Shape(b)
        Elem(arr, sh, i, j) == arr[IF sh[1] = 1 THEN 1 ELSE i][IF sh[2] = 1 THEN 1 ELSE j]
    IN  IF ~(Broadcastable(sa[1], sb[1]) /\ Broadcastable(sa[2], sb[2]))
        THEN ValueError("operands could not be broadcast together")
        ELSE [kind |-> "array",
              array |-> [i \in 1..Max(sa[1], sb[1]) |->
                            [j \in 1..Max(sa[2], sb[2]) |->
                                Elem(a, sa, i, j) + Elem(b, sb, i, j)]]]

Subtract(a, b) ==
    LET sa == Shape(a)
        sb == Shape(b)
        Elem(arr, sh, i, j) == arr[IF sh[1] = 1 THEN 1 ELSE i][IF sh[2] = 1 THEN 1 ELSE j]
    IN  IF ~(Broadcastable(sa[1], sb[1]) /\ Broadcastable(sa[2], sb[2]))
        THEN ValueError("operands could not be broadcast together")
        ELSE [kind |-> "array",
              array |-> [i \in 1..Max(sa[1], sb[1]) |->
                            [j \in 1..Max(sa[2], sb[2]) |->
                                Elem(a, sa, i, j) - Elem(b, sb, i, j)]]]

RECURSIVE SeqSum(_)
SeqSum(q) == IF q = <<>> THEN 0 ELSE q[1] + SeqSum(Tail(q))
\* ndarray.sum() of a 2-D array
ArraySum(a) == SeqSum([i \in 1..Len(a) |-> SeqSum(a[i])])

\* self.event_pitch_control - edited_pitch_control, returned with the grid
Difference(o) ==
    IF IsError(o.ret) THEN o
    ELSE Only({IF IsError(d) THEN [o EXCEPT !.ret = d]
               ELSE [o EXCEPT !.ret = [kind |-> "difference", surface |-> d.array,
                                       xgrid |-> o.ret.xgrid, ygrid |-> o.ret.ygrid]] :
                   d \in {Subtract(event_pitch_control, o.ret.surface)}})

\* any other mode is taken as "movement"
calculate_pitch_control_difference_else_movement(replace_velocity, replace_x_velocity, replace_y_velocity, relative_x_change, relative_y_change, replace_function) ==
    Only({Difference(o) : o \in {
        CASE replace_function = "movement" ->
                 calculate_pitch_control_replaced_velocity(
                     replace_x_velocity, replace_y_velocity)
          [] replace_function = "presence" ->
                 calculate_pitch_control_without_player
          [] replace_function = "location" ->
                 calculate_pitch_control_new_location(
                     relative_x_change, relative_y_change, replace_velocity,
                     replace_x_velocity, replace_y_velocity)
          [] OTHER ->
                 calculate_pitch_control_replaced_velocity(
                     replace_x_velocity, replace_y_velocity)}})

calculate_pitch_control_difference(replace_velocity, replace_x_velocity, replace_y_velocity, relative_x_change, relative_y_change, replace_function) ==
    Only({Difference(o) : o \in {
        CASE replace_function = "movement" ->
                 calculate_pitch_control_replaced_velocity(
                     replace_x_velocity, replace_y_velocity)
          [] replace_function = "presence" ->
                 calculate_pitch_control_without_player
          [] replace_function = "location" ->
                 calculate_pitch_control_new_location(
                     relative_x_change, relative_y_change, replace_velocity,
                     replace_x_velocity, replace_y_velocity)
          [] OTHER ->
                 Raised(ValueError(ModeMessage), NoEffects)}})

\* the value is the exact fraction num / den (square metres)
calculate_total_space_on_pitch_team(pitch_control_result) ==
    [kind |-> "space",
     num |-> field_dimens[1] * field_dimens[2] * ArraySum(pitch_control_result),
     den |-> Len(xgrid) * Len(ygrid)]

\* the sign is never corrected
SignCorrected_as_is(team_with_possession, o) ==
    IF IsError(o.ret) THEN o
    ELSE Only({[o EXCEPT !.ret = pitch_control_change] :
                   pitch_control_change \in
                       {calculate_total_space_on_pitch_team(o.ret.surface)}})

\* the difference is negated for the team in possession
SignCorrected_reversed(team_with_possession, o) ==
    IF IsError(o.ret) THEN o
    ELSE Only({IF team_with_possession # team_player_to_analyze
               THEN [o EXCEPT !.ret = pitch_control_change]
               ELSE [o EXCEPT !.ret = [pitch_control_change EXCEPT !.num = -1 * @]] :
                   pitch_control_change \in
                       {calculate_total_space_on_pitch_team(o.ret.surface)}})

\* the integrated difference, negated when the other team has possession
SignCorrected(team_with_possession, o) ==
    IF IsError(o.ret) THEN o
    ELSE Only({IF team_with_possession = team_player_to_analyze
               THEN [o EXCEPT !.ret = pitch_control_change]
               ELSE [o EXCEPT !.ret = [pitch_control_change EXCEPT !.num = -1 * @]] :
                   pitch_control_change \in
                       {calculate_total_space_on_pitch_team(o.ret.surface)}})

calculate_space_created(replace_x_velocity, replace_y_velocity, relative_x_change, relative_y_change, replace_velocity, replace_function) ==
    Only({SignCorrected(events[event_id]["Team"], o) : o \in {
        calculate_pitch_control_difference(
            replace_velocity, replace_x_velocity, replace_y_velocity,
            relative_x_change, relative_y_change, replace_function)}})

(***************************************************************************)
(* The drawing layer: Metrica_Viz.plot_pitchcontrol_for_event.  The floats *)
(* of a surface to draw are exact fractions num / den in lowest terms;     *)
(* den = 0 stands for a value that is not finite (a division by zero).     *)
(***************************************************************************)
RECURSIVE GCD(_, _)
GCD(a, b) == IF b = 0 THEN a ELSE GCD(b, a % b)

NotFinite == [num |-> 0, den |-> 0]
Frac(n, d) ==
    IF d = 0 THEN NotFinite
    ELSE LET g == GCD(Abs(n), Abs(d))
         IN  IF d < 0 THEN [num |-> (0 - n) \div g, den |-> (0 - d) \div g]
             ELSE [num |-> n \div g, den |-> d \div g]
Finite(x) == x.den # 0
FAdd(x, y) ==
    IF Finite(x) /\ Finite(y) THEN Frac(x.num * y.den + y.num * x.den, x.den * y.den)
    ELSE NotFinite
FSub(x, y) ==
    IF Finite(x) /\ Finite(y) THEN Frac(x.num * y.den - y.num * x.den, x.den * y.den)
    ELSE NotFinite
FMul(x, y) ==
    IF Finite(x) /\ Finite(y) THEN Frac(x.num * y.num, x.den * y.den) ELSE NotFinite
FDiv(x, y) ==
    IF Finite(x) /\ Finite(y) THEN Frac(x.num * y.den, x.den * y.num) ELSE NotFinite
FLeq(x, y) == x.num * y.den <= y.num * x.den

CellsOf(a) == {a[i][j] : i \in 1..Len(a), j \in 1..Len(a[1])}
\* pitch_control.min() and pitch_control.max()
ArrayMin(a) == CHOOSE m \in CellsOf(a) : \A c \in CellsOf(a) : FLeq(m, c)
ArrayMax(a) == CHOOSE m \in CellsOf(a) : \A c \in CellsOf(a) : FLeq(c, m)

\* quadratic_coef * pitch_control^2 + linear_coef * pitch_control + 0.5
convert_pitch_control_for_cmap(pitch_control) ==
    LET min_value == ArrayMin(pitch_control)
        max_value == ArrayMax(pitch_control)
        quadratic_coef ==
            FDiv(FMul(Frac(1, 2), FAdd(min_value, max_value)),
                 FMul(FMul(max_value, min_value), FSub(max_value, min_value)))
        linear_coef ==
            FDiv(FMul(Frac(1, 2), FAdd(FMul(min_value, min_value),
                                       FMul(max_value, max_value))),
                 FMul(FMul(FMul(min_value, max_value), max_value), min_value))
        constant_term == Frac(1, 2)
    IN  Only({[i \in 1..Len(pitch_control) |-> [j \in 1..Len(pitch_control[i]) |->
                  FAdd(FAdd(FMul(qc, FMul(pitch_control[i][j], pitch_control[i][j])),
                            FMul(lc, pitch_control[i][j])),
                       FAdd(constant_term, FMul(Frac(0, 1), pitch_control[i][j])))]] :
                 qc \in {quadratic_coef}, lc \in {linear_coef}})

\* -1 * PPCF
Negated(a) == [i \in 1..Len(a) |-> [j \in 1..Len(a[i]) |-> FSub(Frac(0, 1), a[i][j])]]

\* the arguments of a call of plot_pitchcontrol_for_event
PlotArgs(PPCF, plotting_difference, plotting_presence, plotting_new_location, x, y, vx, vy) ==
    [stage |-> "handed", PPCF |-> PPCF, plotting_difference |-> plotting_difference,
     plotting_presence |-> plotting_presence,
     plotting_new_location |-> plotting_new_location,
     player_x_coordinate |-> x, player_y_coordinate |-> y,
     player_x_velocity |-> vx, player_y_velocity |-> vy]

\* the new player's marker and arrow are drawn and the surface is negated
\* when a new location is plotted; a difference is converted for the colour
\* map; the result is shown with vmin = 0 and vmax = 1
plot_pitchcontrol_for_event(h) ==
    LET negated == IF h.plotting_new_location THEN Negated(h.PPCF) ELSE h.PPCF
    IN  [stage |-> "drawn", handed |-> h,
         new_player |-> IF h.plotting_new_location
                        THEN [x |-> h.player_x_coordinate, y |-> h.player_y_coordinate,
                              vx |-> h.player_x_velocity, vy |-> h.player_y_velocity]
                        ELSE None,
         image |-> IF h.plotting_difference
                   THEN convert_pitch_control_for_cmap(negated)
                   ELSE negated]

\* a surface in 1/Scale as floats
Floats(sf) == [i \in 1..Len(sf) |-> [j \in 1..Len(sf[i]) |-> Frac(sf[i][j], Scale)]]

\* plot_pitch_control_difference: the difference is computed and handed to
\* plot_pitchcontrol_for_event; for "location" the new player is placed at
\* the stored position plus the relative change, with the stored velocity
\* unless replace_velocity
plot_pitch_control_difference(replace_x_velocity, replace_y_velocity, relative_x_change, relative_y_change, replace_velocity, replace_function) ==
    LET row == heap[df_dict[team_player_to_analyze]][event_frame]
        stored(f) == row[column(team_player_to_analyze, player_to_analyze, f)]
        Args(pitch_control_difference) ==
            CASE replace_function = "presence" ->
                     PlotArgs(pitch_control_difference, FALSE, TRUE, FALSE,
                              None, None, Num(0), Num(0))
              [] replace_function = "movement" ->
                     PlotArgs(pitch_control_difference, TRUE, FALSE, FALSE,
                              None, None, Num(0), Num(0))
              [] replace_function = "location" ->
                     PlotArgs(pitch_control_difference, TRUE, FALSE, TRUE,
                              Plus(stored("x"), relative_x_change),
                              Plus(stored("y"), relative_y_change),
                              IF replace_velocity THEN replace_x_velocity
                              ELSE stored("vx"),
                              IF replace_velocity THEN replace_y_velocity
                              ELSE stored("vy"))
    IN  Only({IF IsError(o.ret) THEN o
              ELSE [ret |-> [kind |-> "figure"], heap |-> o.heap,
                    tmp_df_dict |-> o.tmp_df_dict, effects |-> o.effects,
                    figure |-> Args(Floats(o.ret.surface))] :
                  o \in {calculate_pitch_control_difference(
                             replace_velocity, replace_x_velocity, replace_y_velocity,
                             relative_x_change, relative_y_change, replace_function)}})

(***************************************************************************)
(* Construction.                                                           *)
(***************************************************************************)
Coords == {4 * k : k \in -MaxCoord..MaxCoord}
Velocities == {0, 2}

Absent == [x |-> NaN, y |-> NaN, vx |-> NaN, vy |-> NaN]
At(px, py, pvx, pvy) == [x |-> Num(px), y |-> Num(py), vx |-> Num(pvx), vy |-> Num(pvy)]

\* what player "1" of Home may be doing at the event frame
Player1States == {Absent} \cup {At(px, 0, pvx, 0) : px \in Coords, pvx \in Velocities}

\* a tracking table: Home player "1" is in state m1 at the event frame
TrackingTable(t, m1, frame) ==
    [f \in Frames |->
        [c \in Columns(t) |->
            CASE c[1] = "ball" -> Num(0)
              [] c[2] = "1" -> IF f = frame THEN m1[c[3]] ELSE At(0, 0, 0, 0)[c[3]]
              [] c[2] = "2" -> At(4, 2, 0, 0)[c[3]]
              [] c[2] = "3" -> At(0, -2, 2, 0)[c[3]]]]

\* (team_player_to_analyze, player_to_analyze) as callers may pass them:
\* the analyses run on every grid, and the ids and teams that exercise the
\* validation
Analysed == {<<"Home", PyInt(1)>>, <<"Away", PyInt(3)>>}
ValidationCases ==
    {<<"Home", PyStr("1")>>, <<"Home", PyInt(3)>>, <<"Home", PyFloat(1)>>,
     <<"Ref", PyInt(1)>>, <<"Ref", PyFloat(1)>>}

\* (field_dimens, n_grid_cells_x) as callers may pass them
DefaultGrid == <<GeneratorDefaults.field_dimen, GeneratorDefaults.n_grid_cells_x>>
Grids == {DefaultGrid,
          <<<<12, 4>>, GeneratorDefaults.n_grid_cells_x>>,
          <<GeneratorDefaults.field_dimen, 4>>}

\* the constructor calls of the model: (analysed, grid, possessing team)
Constructions ==
    {<<a, g, "Home">> : a \in Analysed, g \in Grids}
        \cup {<<a, DefaultGrid, "Away">> : a \in Analysed}
        \cup {<<a, DefaultGrid, "Home">> : a \in ValidationCases}

\* __init__: store the arguments, then generate the baseline surface
\* without passing field_dimen and n_grid_cells_x on
Constructed(dfs, prm, evs, eid, team, player, dimens, ngx) ==
    LET g == generate_pitch_control_for_event(
                 eid, evs, Deref(heap, dfs), prm,
                 GeneratorDefaults.field_dimen, GeneratorDefaults.n_grid_cells_x)
    IN  /\ df_dict = dfs
        /\ params = prm
        /\ events = evs
        /\ event_id = eid
        /\ team_player_to_analyze = team
        /\ player_to_analyze = player
        /\ field_dimens = dimens
        /\ n_grid_cells_x = ngx
        /\ event_pitch_control = g.surface
        /\ xgrid = g.xgrid
        /\ ygrid = g.ygrid

\* the state after construction, for the given tracking data and
\* constructor calls
Start(states, constructions) ==
    /\ \E m1 \in states :
           heap = [r \in {"home", "away", "tmp"} |->
                      CASE r = "home" -> TrackingTable("Home", m1, 2)
                        [] r = "away" -> TrackingTable("Away", m1, 2)
                        [] r = "tmp" -> Free]
    /\ \E c \in constructions :
           Constructed([t \in Teams |-> IF t = "Home" THEN "home" ELSE "away"],
                       DefaultParams,
                       [e \in {7} |-> [k \in {"Start Frame", "Team"} |->
                                          IF k = "Team" THEN c[3] ELSE 2]],
                       7, c[1][1], c[1][2], c[2][1], c[2][2])
    /\ call = [op |-> "__init__"]
    /\ ret = None
    /\ tmp_df_dict = None
    /\ effects = NoEffects

\* the history variable: off, waiting for a call to remember, or holding
\* a call, its result and whether calls came after it ("none", only
\* repetitions of it: "same", or some other call: "other")
NotRecording == [kind |-> "off"]
Recording == [kind |-> "waiting"]
Recorded(c, r) == [kind |-> "recorded", call |-> c, ret |-> r, since |-> "none"]
Recordable == {"replace_velocity", "remove_player", "relocate_player",
               "surface_difference"}

Remember(c, r) ==
    CASE remembered.kind = "off" -> {remembered}
      [] remembered.kind = "waiting" ->
             {remembered} \cup (IF c.op \in Recordable THEN {Recorded(c, r)} ELSE {})
      [] OTHER ->
             {[remembered EXCEPT !.since =
                   IF c = remembered.call /\ @ # "other" THEN "same" ELSE "other"]}

\* no call is in progress on another thread
NoThreads == <<>>
\* the race model is not being run on its own
NoRace == [stage |-> "off"]
\* nothing was handed to the drawing layer
NoFigure == [stage |-> "none"]

Init ==
    /\ Start(Player1States, Constructions)
    /\ remembered = NotRecording
    /\ threads = NoThreads
    /\ race = NoRace
    /\ figure = NoFigure

\* a few Analyzers whose calls are remembered and repeated
RepeatStates == {Absent, At(-4, 0, 0, 0)}
RepeatConstructions ==
    {<<<<"Home", PyInt(1)>>, DefaultGrid, "Home">>,
     <<<<"Away", PyInt(3)>>, DefaultGrid, "Away">>}

InitRepeat ==
    /\ Start(RepeatStates, RepeatConstructions)
    /\ remembered = Recording
    /\ threads = NoThreads
    /\ race = NoRace
    /\ figure = NoFigure

(***************************************************************************)
(* The operations.  Each sets the record of the last call.                 *)
(***************************************************************************)
Return(c, o) ==
    \E r \in {o} :
        /\ call' = c
        /\ ret' = r.ret
        /\ heap' = r.heap
        /\ tmp_df_dict' = r.tmp_df_dict
        /\ effects' = r.effects
        /\ remembered' \in Remember(c, r.ret)
        /\ figure' = IF "figure" \in DOMAIN r THEN r.figure ELSE NoFigure
        /\ UNCHANGED <<analyzer, threads, race>>

VelocityArgs == {Num(v) : v \in Velocities}
DeltaArgs == {Num(0), Num(4)}

\* (relative_x_change, relative_y_change, replace_velocity,
\* replace_x_velocity, replace_y_velocity) of relocate_player
RelocateArgs ==
    {<<dx, Num(0), rv, vx, Num(0)>> :
         dx \in DeltaArgs, rv \in BOOLEAN, vx \in VelocityArgs}
        \cup {<<Num(0), Num(0), TRUE, Num(0), Num(2)>>}

\* the keyword arguments of surface_difference and space_created
Kwargs(rv, vx, vy, dx, dy, mode) ==
    [replace_velocity |-> rv, replace_x_velocity |-> vx, replace_y_velocity |-> vy,
     relative_x_change |-> dx, relative_y_change |-> dy, replace_function |-> mode]
CallArgs ==
    {Kwargs(FALSE, vx, Num(0), Num(0), Num(0), "movement") : vx \in VelocityArgs}
    \cup {Kwargs(FALSE, Num(0), Num(0), Num(0), Num(0), mode) : mode \in {"presence", "speed"}}
    \cup {Kwargs(rv, vx, Num(0), dx, Num(0), "location") :
              rv \in BOOLEAN, vx \in VelocityArgs, dx \in DeltaArgs}

ValidateInputs ==
    Return([op |-> "validate_inputs"],
           IF IsError(validate_inputs) THEN Raised(validate_inputs, NoEffects)
           ELSE [ret |-> None, heap |-> Untouched,
                 tmp_df_dict |-> None, effects |-> NoEffects])

ReplaceVelocity(vx, vy) ==
    Return([op |-> "replace_velocity", replace_x_velocity |-> vx,
            replace_y_velocity |-> vy],
           calculate_pitch_control_replaced_velocity(vx, vy))

RemovePlayer ==
    Return([op |-> "remove_player"], calculate_pitch_control_without_player)

RelocatePlayer(dx, dy, rv, vx, vy) ==
    Return([op |-> "relocate_player", relative_x_change |-> dx,
            relative_y_change |-> dy, replace_velocity |-> rv,
            replace_x_velocity |-> vx, replace_y_velocity |-> vy],
           calculate_pitch_control_new_location(dx, dy, rv, vx, vy))

SurfaceDifference(a) ==
    Return([op |-> "surface_difference", kwargs |-> a],
           calculate_pitch_control_difference(
               a.replace_velocity, a.replace_x_velocity, a.replace_y_velocity,
               a.relative_x_change, a.relative_y_change, a.replace_function))

SpaceCreated(a) ==
    Return([op |-> "space_created", kwargs |-> a],
           calculate_space_created(
               a.replace_x_velocity, a.replace_y_velocity, a.relative_x_change,
               a.relative_y_change, a.replace_velocity, a.replace_function))

\* plot_pitch_control_difference hands the surface and the new player to
\* the drawing layer
Plot(a) ==
    Return([op |-> "plot", kwargs |-> a],
           plot_pitch_control_difference(
               a.replace_x_velocity, a.replace_y_velocity, a.relative_x_change,
               a.relative_y_change, a.replace_velocity, a.replace_function))

\* space_occupied of the baseline or of the surface the last call returned
SpaceOccupied(sf) ==
    Return([op |-> "space_occupied", surface |-> sf],
           [ret |-> calculate_total_space_on_pitch_team(sf),
            heap |-> Untouched, tmp_df_dict |-> None, effects |-> NoEffects])

Surfaces ==
    {event_pitch_control}
        \cup (IF ret.kind \in {"surface", "difference"} THEN {ret.surface} ELSE {})

Next ==
    \/ ValidateInputs
    \/ \E vx \in VelocityArgs : ReplaceVelocity(vx, Num(0))
    \/ RemovePlayer
    \/ \E a \in RelocateArgs : RelocatePlayer(a[1], a[2], a[3], a[4], a[5])
    \/ \E a \in CallArgs : SurfaceDifference(a)
    \/ \E a \in CallArgs : SpaceCreated(a)
    \/ \E a \in CallArgs : Plot(a)
    \/ \E sf \in Surfaces : SpaceOccupied(sf)

Spec == Init /\ [][Next]_vars

\* the same operations, with one call remembered
SpecRepeat == InitRepeat /\ [][Next]_vars

(***************************************************************************)
(* Perturbation calls running on two threads against the same Analyzer.    *)
(* Each thread executes the statements of its method one at a time; its    *)
(* locals (tmp_df_dict, df_tmp) are its own, the Analyzer and the heap are *)
(* shared.                                                                 *)
(***************************************************************************)
ThreadIds == {1, 2}

Idle == [pc |-> "idle", call |-> None, tmp_df_dict |-> None, df_tmp |-> "none",
         writes |-> <<>>, ret |-> None]

\* the calls a thread may make
ThreadCalls ==
    {[op |-> "replace_velocity", replace_x_velocity |-> Num(2),
      replace_y_velocity |-> Num(0)],
     [op |-> "remove_player"],
     [op |-> "relocate_player", relative_x_change |-> Num(4),
      relative_y_change |-> Num(0), replace_velocity |-> FALSE,
      replace_x_velocity |-> Num(2), replace_y_velocity |-> Num(0)]}

\* the df_tmp.at[...] assignments of a call, in the order of the code
WritesOf(c) ==
    LET team == team_player_to_analyze
        player == player_to_analyze
    IN  CASE c.op = "replace_velocity" ->
                 << <<column(team, player, "vx"), c.replace_x_velocity>>,
                    <<column(team, player, "vy"), c.replace_y_velocity>> >>
          [] c.op = "remove_player" ->
                 << <<column(team, player, "x"), NaN>>,
                    <<column(team, player, "y"), NaN>>,
                    <<column(team, player, "vx"), NaN>>,
                    <<column(team, player, "vy"), NaN>> >>
          [] c.op = "relocate_player" ->
                 << <<column(team, player, "x"), c.relative_x_change>>,
                    <<column(team, player, "y"), c.relative_y_change>>,
                    <<column(team, player, "vx"), c.replace_x_velocity>>,
                    <<column(team, player, "vy"), c.replace_y_velocity>> >>

\* every thread's copy lives at one and the same address
NewRef_one_for_all(t) == "t1"

\* the address of the table object a thread's df.copy() creates
NewRef(t) == IF t = 1 THEN "t1" ELSE "t2"

Step(t, next) ==
    /\ threads' = [threads EXCEPT ![t] = next]
    /\ UNCHANGED <<analyzer, call, ret, tmp_df_dict, effects, remembered, race, figure>>

\* a thread enters one of the three methods
Begin(t, c) ==
    /\ threads[t].pc = "idle"
    /\ Step(t, [threads[t] EXCEPT !.pc = "validate", !.call = c])
    /\ UNCHANGED heap

\* self._validate_inputs()
Validate(t) ==
    /\ threads[t].pc = "validate"
    /\ \E v \in {validate_inputs} :
           IF IsError(v)
           THEN Step(t, [threads[t] EXCEPT !.pc = "raised", !.ret = v])
           ELSE Step(t, [threads[t] EXCEPT !.pc = "copy_dict"])
    /\ UNCHANGED heap

\* tmp_df_dict = self.df_dict.copy()
CopyDict(t) ==
    /\ threads[t].pc = "copy_dict"
    /\ Step(t, [threads[t] EXCEPT !.pc = "copy_table", !.tmp_df_dict = df_dict])
    /\ UNCHANGED heap

\* df_tmp = df.copy(), for the analysed team's df of tmp_df_dict
CopyTable(t) ==
    /\ threads[t].pc = "copy_table"
    /\ \E c \in {df_copy(Untouched, threads[t].tmp_df_dict[team_player_to_analyze])} :
           IF c.ref = "tmp"
           THEN /\ heap' = [r \in DOMAIN heap \cup {NewRef(t)} |->
                               IF r = NewRef(t) THEN c.heap["tmp"] ELSE heap[r]]
                /\ Step(t, [threads[t] EXCEPT !.pc = "write", !.df_tmp = NewRef(t),
                                               !.writes = WritesOf(threads[t].call)])
           ELSE /\ heap' = heap
                /\ Step(t, [threads[t] EXCEPT !.pc = "write", !.df_tmp = c.ref,
                                               !.writes = WritesOf(threads[t].call)])

\* the next df_tmp.at[event_frame, column] = value
Write(t) ==
    /\ threads[t].pc = "write"
    /\ \E w \in {Head(threads[t].writes)} :
           heap' = at_set(heap, threads[t].df_tmp, event_frame, w[1], w[2])
    /\ Step(t, [threads[t] EXCEPT !.writes = Tail(@),
                                   !.pc = IF Len(threads[t].writes) = 1
                                          THEN "assign" ELSE "write"])

\* tmp_df_dict[team] = df_tmp
Assign(t) ==
    /\ threads[t].pc = "assign"
    /\ Step(t, [threads[t] EXCEPT
                    !.pc = "generate",
                    !.tmp_df_dict = [@ EXCEPT ![team_player_to_analyze] = threads[t].df_tmp]])
    /\ UNCHANGED heap

\* edited_pitch_control, xgrid, ygrid = mpc.generate_pitch_control_for_event(...)
\* and the return
Generate(t) ==
    /\ threads[t].pc = "generate"
    /\ \E g \in {generate_pitch_control_for_event(
                     event_id, events, Deref(heap, threads[t].tmp_df_dict), params,
                     field_dimens, n_grid_cells_x)} :
           Step(t, [threads[t] EXCEPT
                        !.pc = "done",
                        !.ret = [kind |-> "surface", surface |-> g.surface,
                                 xgrid |-> g.xgrid, ygrid |-> g.ygrid]])
    /\ UNCHANGED heap

\* the Analyzer the threads share; in one of the initial states its player
\* is absent
ConcurrentConstructions == {<<<<"Home", PyInt(1)>>, DefaultGrid, "Home">>}

InitConcurrent ==
    /\ Start(RepeatStates, ConcurrentConstructions)
    /\ remembered = NotRecording
    /\ threads = [t \in ThreadIds |-> Idle]
    /\ race = NoRace
    /\ figure = NoFigure

NextConcurrent ==
    \E t \in ThreadIds :
        \/ \E c \in ThreadCalls : Begin(t, c)
        \/ Validate(t)
        \/ CopyDict(t)
        \/ CopyTable(t)
        \/ Write(t)
        \/ Assign(t)
        \/ Generate(t)

SpecConcurrent == InitConcurrent /\ [][NextConcurrent]_vars

(***************************************************************************)
(* The race model (4.2) run on its own, one integration step at a time,    *)
(* for two cells in turn whose values are then subtracted.                 *)
(***************************************************************************)
\* arrival times: at once, within the horizon, never
ArrivalTimes == {0, 3, Infinity(DefaultParams)}
RaceParams ==
    {DefaultParams,
     [DefaultParams EXCEPT !.max_int_time = 3, !.model_converge_tol = 10]}

Racing(att, def, prm, cells) ==
    [stage |-> "integrating", att |-> att, def |-> def, prm |-> prm,
     acc |-> <<0, 0, 0>>, cells |-> cells, difference |-> <<>>]

RaceMove(next) ==
    /\ race' = next
    /\ UNCHANGED <<heap, analyzer, call, ret, tmp_df_dict, effects, remembered, threads,
                   figure>>

\* one step of the integration
RaceStep ==
    /\ race.stage = "integrating"
    /\ ~Stop(race.acc, race.prm)
    /\ RaceMove([race EXCEPT !.acc =
                     IntegrationStep(race.acc, SetMin(race.att, Infinity(race.prm)),
                                     SetMin(race.def, Infinity(race.prm)), race.prm)])

\* the integration has stopped: the cell's value is the normalised
\* attacking accumulator
RaceFinish ==
    /\ race.stage = "integrating"
    /\ Stop(race.acc, race.prm)
    /\ RaceMove([race EXCEPT !.cells = Append(@, ControlProbability(race.acc)),
                             !.stage = IF Len(race.cells) = 0 THEN "finished"
                                       ELSE "subtract"])

\* the same cell for an edited snapshot: other arrival times
RaceAgain(att, def) ==
    /\ race.stage = "finished"
    /\ RaceMove(Racing(att, def, race.prm, race.cells))

\* baseline cell minus perturbed cell
CellDifference ==
    /\ race.stage = "subtract"
    /\ \E d \in {Subtract(<<<<race.cells[1]>>>>, <<<<race.cells[2]>>>>)} :
           RaceMove([race EXCEPT !.stage = "difference", !.difference = d.array])

InitRace ==
    /\ Start({At(-4, 0, 0, 0)}, ConcurrentConstructions)
    /\ remembered = NotRecording
    /\ threads = NoThreads
    /\ figure = NoFigure
    /\ \E att \in SUBSET ArrivalTimes, def \in SUBSET ArrivalTimes, prm \in RaceParams :
           race = Racing(att, def, prm, <<>>)

NextRace ==
    \/ RaceStep
    \/ RaceFinish
    \/ \E att \in SUBSET ArrivalTimes, def \in SUBSET ArrivalTimes : RaceAgain(att, def)
    \/ CellDifference

\* every run of the integration is carried on while a step is possible
SpecRace == InitRace /\ [][NextRace]_vars /\ WF_vars(NextRace)

(***************************************************************************)
(* Analyzers of snapshots with an isolated attacker: Home player "1" is    *)
(* on a grid cell, Home player "2" is far away or absent, and the Away     *)
(* defender is in reach, far away or absent.                               *)
(***************************************************************************)
FarAway == At(40, 0, 0, 0)
IsolatedAttackers == {At(-4, 0, 0, 0), At(4, 0, 2, 0)}
OtherAttackers == {FarAway, Absent}
Defenders == {At(0, -2, 2, 0), FarAway, Absent}

IsolatedTable(t, m1, m2, m3, frame) ==
    [f \in Frames |->
        [c \in Columns(t) |->
            CASE c[1] = "ball" -> Num(0)
              [] c[2] = "1" -> IF f = frame THEN m1[c[3]] ELSE At(0, 0, 0, 0)[c[3]]
              [] c[2] = "2" -> m2[c[3]]
              [] c[2] = "3" -> m3[c[3]]]]

InitIsolated ==
    /\ \E m1 \in IsolatedAttackers, m2 \in OtherAttackers, m3 \in Defenders :
           heap = [r \in {"home", "away", "tmp"} |->
                      CASE r = "home" -> IsolatedTable("Home", m1, m2, m3, 2)
                        [] r = "away" -> IsolatedTable("Away", m1, m2, m3, 2)
                        [] r = "tmp" -> Free]
    /\ Constructed([t \in Teams |-> IF t = "Home" THEN "home" ELSE "away"],
                   DefaultParams,
                   [e \in {7} |-> [k \in {"Start Frame", "Team"} |->
                                      IF k = "Team" THEN "Home" ELSE 2]],
                   7, "Home", PyInt(1),
                   GeneratorDefaults.field_dimen, GeneratorDefaults.n_grid_cells_x)
    /\ call = [op |-> "__init__"]
    /\ ret = None
    /\ tmp_df_dict = None
    /\ effects = NoEffects
    /\ remembered = NotRecording
    /\ threads = NoThreads
    /\ race = NoRace
    /\ figure = NoFigure

SpecIsolated == InitIsolated /\ [][Next]_vars

(***************************************************************************)
(* One grid cell of the generator (4.3) on its own: the movers' arrival    *)
(* times (4.1), the race between them (4.2), and the same cell again with  *)
(* one attacker removed as remove_player removes it.                       *)
(***************************************************************************)
\* movers of a roster: absent, on a target (standing, running), running
\* towards a target, and too far away for the horizon
CellMovers == {Absent, At(0, 0, 0, 0), At(0, 0, 2, 0), At(4, 0, -2, 0), At(12, 0, 0, 0)}
CellDefenders == {Absent, At(0, 0, 0, 0), At(12, 0, 0, 0)}
CellTargets == {<<0, 0>>, <<4, 0>>}
CellParams == {[DefaultParams EXCEPT !.reaction_time = r] : r \in 0..2}

Snapshot(attackers, defenders, target, prm, cells) ==
    [stage |-> "snapshot", attackers |-> attackers, defenders |-> defenders,
     target |-> target, prm |-> prm, cells |-> cells]

\* every mover's time_to_reach to the cell, then the race starts
Reach ==
    /\ race.stage = "snapshot"
    /\ RaceMove([stage |-> "integrating",
                 att |-> {time_to_reach(m, race.target, race.prm) : m \in race.attackers},
                 def |-> {time_to_reach(m, race.target, race.prm) : m \in race.defenders},
                 prm |-> race.prm, acc |-> <<0, 0, 0>>, cells |-> race.cells,
                 difference |-> <<>>, attackers |-> race.attackers,
                 defenders |-> race.defenders, target |-> race.target])

\* remove_player on the attacker m: its position and velocity become NaN in
\* the snapshot the cell is generated from again
Remove(m) ==
    /\ race.stage = "finished"
    /\ m \in race.attackers
    /\ Present(m)
    /\ RaceMove(Snapshot((race.attackers \ {m}) \cup {Absent}, race.defenders,
                         race.target, race.prm, race.cells))

InitCell ==
    /\ Start({At(-4, 0, 0, 0)}, ConcurrentConstructions)
    /\ remembered = NotRecording
    /\ threads = NoThreads
    /\ figure = NoFigure
    /\ \E attackers \in SUBSET CellMovers, defenders \in SUBSET CellDefenders,
          target \in CellTargets, prm \in CellParams :
           race = Snapshot(attackers, defenders, target, prm, <<>>)

NextCell ==
    \/ Reach
    \/ RaceStep
    \/ RaceFinish
    \/ \E m \in CellMovers : Remove(m)
    \/ CellDifference

SpecCell == InitCell /\ [][NextCell]_vars

(***************************************************************************)
(* The drawing layer on its own: plot_pitchcontrol_for_event draws what it *)
(* was handed.  The cells of the surface are multiples of 1 / Levels       *)
(* between -1 and 1, as in a difference of two pitch control surfaces.     *)
(***************************************************************************)
Levels == 4
LevelCells == {Frac(k, Levels) : k \in (0 - Levels)..Levels}

Draw ==
    /\ figure.stage = "handed"
    /\ figure' = plot_pitchcontrol_for_event(figure)
    /\ UNCHANGED <<heap, analyzer, call, ret, tmp_df_dict, effects, remembered, threads,
                   race>>

InitViz ==
    /\ Start({At(-4, 0, 0, 0)}, ConcurrentConstructions)
    /\ remembered = NotRecording
    /\ threads = NoThreads
    /\ race = NoRace
    /\ \E a \in LevelCells, b \in LevelCells, c \in LevelCells,
          plotting_difference \in BOOLEAN, plotting_new_location \in BOOLEAN :
           figure = PlotArgs(<<<<a>>, <<b>>, <<c>>>>, plotting_difference, FALSE,
                             plotting_new_location,
                             IF plotting_new_location THEN Num(4) ELSE None,
                             IF plotting_new_location THEN Num(0) ELSE None,
                             Num(0), Num(0))

NextViz == Draw

SpecViz == InitViz /\ [][NextViz]_vars

(***************************************************************************)
(* What the claims speak about.                                            *)
(***************************************************************************)
Perturbations == {"replace_velocity", "remove_player", "relocate_player"}
ValidModes == {"movement", "presence", "location"}

\* the analysed player is on the pitch: validation passes
PlayerOnPitch == validate_inputs = None

\* the analysed player's row in the stored table and in the handed-over one
StoredRow == heap[df_dict[team_player_to_analyze]][event_frame]
HandedRow == heap[tmp_df_dict[team_player_to_analyze]][event_frame]
Col(field) == column(team_player_to_analyze, player_to_analyze, field)

IsZeroSurface(a) == \A i \in 1..Len(a) : \A j \in 1..Len(a[i]) : a[i][j] = 0

\* the last call ran no perturbation: nothing copied, warned or generated
NothingRun ==
    /\ effects = NoEffects
    /\ tmp_df_dict = None
    /\ heap["tmp"] = Free

(***************************************************************************)
(* C1: surface_difference(mode="location", relative_x_change=0,            *)
(* relative_y_change=0, replace_velocity=False) on an Analyzer whose       *)
(* player is on the pitch returns a surface that is zero in every cell.    *)
(***************************************************************************)
C1_ZeroRelocationGivesZeroSurface ==
    (/\ call.op = "surface_difference"
     /\ call.kwargs.replace_function = "location"
     /\ call.kwargs.relative_x_change = Num(0)
     /\ call.kwargs.relative_y_change = Num(0)
     /\ ~call.kwargs.replace_velocity
     /\ PlayerOnPitch)
        => (ret.kind = "difference" /\ IsZeroSurface(ret.surface))

(***************************************************************************)
(* C2: relocate_player hands the generator a snapshot in which the         *)
(* analysed player stands at (x + dx, y + dy), (x, y) being the stored     *)
(* position at the event frame.                                            *)
(***************************************************************************)
C2_RelocationIsRelative ==
    (call.op = "relocate_player" /\ ret.kind = "surface")
        => /\ HandedRow[Col("x")] = Plus(StoredRow[Col("x")], call.relative_x_change)
           /\ HandedRow[Col("y")] = Plus(StoredRow[Col("y")], call.relative_y_change)

(***************************************************************************)
(* C3: with replace_velocity=False relocate_player hands over the stored   *)
(* velocity; the velocity is overwritten with the replacement only when    *)
(* replace_velocity is true.                                               *)
(***************************************************************************)
C3_VelocityKeptUnlessReplaced ==
    (call.op = "relocate_player" /\ ret.kind = "surface")
        => IF call.replace_velocity
           THEN /\ HandedRow[Col("vx")] = call.replace_x_velocity
                /\ HandedRow[Col("vy")] = call.replace_y_velocity
           ELSE /\ HandedRow[Col("vx")] = StoredRow[Col("vx")]
                /\ HandedRow[Col("vy")] = StoredRow[Col("vy")]

(***************************************************************************)
(* C4: for every field_dimens and n_grid_cells_x given at construction,    *)
(* space_created(mode="movement") with the replacement velocity equal to   *)
(* the player's current velocity returns 0.                                *)
(***************************************************************************)
C4_OwnVelocityCreatesNoSpace ==
    (/\ call.op = "space_created"
     /\ call.kwargs.replace_function = "movement"
     /\ PlayerOnPitch
     /\ call.kwargs.replace_x_velocity = StoredRow[Col("vx")]
     /\ call.kwargs.replace_y_velocity = StoredRow[Col("vy")])
        => (ret.kind = "space" /\ ret.num = 0)

(***************************************************************************)
(* C5: no operation, successful or failing, changes the Analyzer's stored  *)
(* tracking tables, its event list, its baseline surface or its grid.      *)
(***************************************************************************)
Stored == <<df_dict, Deref(heap, df_dict), events, event_pitch_control, xgrid, ygrid>>

C5_StoredStateNeverChanges == [][Stored' = Stored]_vars

\* a perturbation has written into its copy, which now differs from the
\* stored table
C5_Witness ==
    /\ call.op \in Perturbations
    /\ effects.copies = 1
    /\ heap["tmp"] # heap[df_dict[team_player_to_analyze]]

(***************************************************************************)
(* C6: a perturbation call made again with the same arguments on the same  *)
(* Analyzer returns the same result, or raises the same error, whatever    *)
(* calls came before it or between the two.                                *)
(***************************************************************************)
C6_RepeatedCallSameResult ==
    (/\ remembered.kind = "recorded"
     /\ remembered.since # "none"
     /\ call = remembered.call)
        => ret = remembered.ret

\* a relocation that returned a surface is repeated after other calls
C6_Witness ==
    /\ remembered.kind = "recorded"
    /\ remembered.since = "other"
    /\ call = remembered.call
    /\ call.op = "relocate_player"
    /\ ret.kind = "surface"
    /\ ret = remembered.ret

(***************************************************************************)
(* C7: with a valid id type and a known team, validate_inputs raises the   *)
(* not-on-pitch error exactly when the analysed player has no defined      *)
(* velocity in the analysed team's table at the event frame, and returns   *)
(* silently otherwise; an id present only on the other team is refused.    *)
(***************************************************************************)
HasDefinedVelocity ==
    /\ Col("vx") \in DOMAIN StoredRow
    /\ Col("vy") \in DOMAIN StoredRow
    /\ ~isnan(StoredRow[Col("vx")])
    /\ ~isnan(StoredRow[Col("vy")])

C7_NotOnPitchIffNoVelocity ==
    (/\ call.op = "validate_inputs"
     /\ player_to_analyze.type \in {"str", "int"}
     /\ team_player_to_analyze \in DOMAIN df_dict)
        => IF HasDefinedVelocity THEN ret = None
           ELSE ret = ValueError(NotOnPitchMessage)

C7_Witness ==
    /\ call.op = "validate_inputs"
    /\ team_player_to_analyze = "Home"
    /\ player_to_analyze.type = "int"
    /\ player_to_analyze.val = 3
    /\ ~isnan(heap[df_dict["Away"]][event_frame][column("Away", player_to_analyze, "vx")])
    /\ ret = ValueError(NotOnPitchMessage)

(***************************************************************************)
(* C8 as stated: a bad id type raises InvalidPlayerError and an unknown    *)
(* team InvalidTeamError, two error kinds of their own.                    *)
(***************************************************************************)
C8_ErrorKindsPerRule ==
    call.op = "validate_inputs"
        => /\ player_to_analyze.type \notin {"str", "int"}
                  => (IsError(ret) /\ ret.exc = "InvalidPlayerError")
           /\ (/\ player_to_analyze.type \in {"str", "int"}
               /\ team_player_to_analyze \notin DOMAIN df_dict)
                  => (IsError(ret) /\ ret.exc = "InvalidTeamError")

(***************************************************************************)
(* C8 amended: a bad id type and an unknown team both raise ValueError,    *)
(* the first with the id-type message (whatever the team), the second with *)
(* the team message; every error of every operation has the kind           *)
(* ValueError, so only the message tells the errors apart.                 *)
(***************************************************************************)
C8_ValueErrorPerRule ==
    /\ IsError(ret) => ret.exc = "ValueError"
    /\ call.op = "validate_inputs"
          => /\ player_to_analyze.type \notin {"str", "int"}
                    => ret = ValueError(PlayerTypeMessage)
             /\ (/\ player_to_analyze.type \in {"str", "int"}
                 /\ team_player_to_analyze \notin DOMAIN df_dict)
                    => ret = ValueError(TeamMessage)

\* a float id for an unknown team: the id type is reported
C8_Witness ==
    /\ call.op = "validate_inputs"
    /\ player_to_analyze.type = "float"
    /\ team_player_to_analyze \notin DOMAIN df_dict
    /\ ret = ValueError(PlayerTypeMessage)

(***************************************************************************)
(* C9: each perturbation validates first: when validation fails the call   *)
(* raises that error and has made no copy, emitted no warning and not      *)
(* invoked the generator.                                                  *)
(***************************************************************************)
C9_ValidationComesFirst ==
    (call.op \in Perturbations /\ IsError(validate_inputs))
        => (ret = validate_inputs /\ NothingRun)

\* a refused relocation whose arguments would have drawn the warning
C9_Witness ==
    /\ call.op = "relocate_player"
    /\ call.replace_velocity
    /\ call.replace_x_velocity = Num(0)
    /\ call.replace_y_velocity = Num(0)
    /\ IsError(ret)
    /\ effects.warnings = 0

(***************************************************************************)
(* C10: surface_difference and space_created with a mode outside           *)
(* {movement, presence, location} raise the mode error, and no             *)
(* perturbation has run.                                                   *)
(***************************************************************************)
C10_UnknownModeRaisesAndRunsNothing ==
    (/\ call.op \in {"surface_difference", "space_created"}
     /\ call.kwargs.replace_function \notin ValidModes)
        => (ret = ValueError(ModeMessage) /\ NothingRun)

\* the Analyzer is valid, so the mode alone makes the call fail
C10_Witness ==
    /\ call.op = "space_created"
    /\ call.kwargs.replace_function = "speed"
    /\ PlayerOnPitch
    /\ ret = ValueError(ModeMessage)

\* the perturbation a valid mode stands for, run with the caller's arguments
PerturbationFor(a) ==
    CASE a.replace_function = "movement" ->
             calculate_pitch_control_replaced_velocity(
                 a.replace_x_velocity, a.replace_y_velocity)
      [] a.replace_function = "presence" ->
             calculate_pitch_control_without_player
      [] a.replace_function = "location" ->
             calculate_pitch_control_new_location(
                 a.relative_x_change, a.relative_y_change, a.replace_velocity,
                 a.replace_x_velocity, a.replace_y_velocity)

\* d is, cell by cell, a minus b
CellwiseDifference(d, a, b) ==
    /\ Shape(d) = Shape(a)
    /\ Shape(d) = Shape(b)
    /\ \A i \in 1..Len(d) : \A j \in 1..Len(d[i]) : d[i][j] = a[i][j] - b[i][j]

(***************************************************************************)
(* C11: for each valid mode, surface_difference runs exactly the matching  *)
(* perturbation with the caller's arguments and returns, cell by cell, the *)
(* stored baseline minus the perturbed surface, together with the grid.    *)
(***************************************************************************)
C11_DifferenceIsBaselineMinusPerturbed ==
    (/\ call.op = "surface_difference"
     /\ call.kwargs.replace_function \in ValidModes
     /\ PlayerOnPitch)
        => \E p \in {PerturbationFor(call.kwargs)} :
               /\ heap = p.heap
               /\ tmp_df_dict = p.tmp_df_dict
               /\ effects = p.effects
               /\ ret.kind = "difference"
               /\ ret.xgrid = p.ret.xgrid
               /\ ret.ygrid = p.ret.ygrid
               /\ CellwiseDifference(ret.surface, event_pitch_control, p.ret.surface)

\* a fraction equals another: compared by cross-multiplication
SameValue(a, b) == a.num * b.den = b.num * a.den

(***************************************************************************)
(* C12: space_created is space_occupied of the surface_difference of the   *)
(* same arguments, as it is when the event's Team is the analysed team and *)
(* negated in every other case; an error of surface_difference is the      *)
(* outcome of space_created.                                               *)
(***************************************************************************)
C12_SpaceCreatedIsSignedSpaceOfDifference ==
    call.op = "space_created"
        => \E d \in {calculate_pitch_control_difference(
                         call.kwargs.replace_velocity, call.kwargs.replace_x_velocity,
                         call.kwargs.replace_y_velocity, call.kwargs.relative_x_change,
                         call.kwargs.relative_y_change, call.kwargs.replace_function)} :
               IF IsError(d.ret) THEN ret = d.ret
               ELSE \E s \in {calculate_total_space_on_pitch_team(d.ret.surface)} :
                        /\ ret.kind = "space"
                        /\ IF events[event_id]["Team"] = team_player_to_analyze
                           THEN SameValue(ret, s)
                           ELSE SameValue(ret, [s EXCEPT !.num = 0 - s.num])

\* the other team has possession and the edit changes the space
C12_Witness ==
    /\ call.op = "space_created"
    /\ ret.kind = "space"
    /\ ret.num # 0
    /\ events[event_id]["Team"] # team_player_to_analyze

\* the number of cells of a surface
CellCount(sf) == Len(sf) * (IF Len(sf) = 0 THEN 0 ELSE Len(sf[1]))
InUnitRange(sf) == \A i \in 1..Len(sf) : \A j \in 1..Len(sf[i]) : sf[i][j] \in 0..Scale

(***************************************************************************)
(* C13: space_occupied(surface) is field_length * field_width * (sum of    *)
(* the cells) / (number of cells of the surface passed in); it leaves the  *)
(* Analyzer as it is, and for a surface with all cells in [0,1] the result *)
(* lies in [0, field_length * field_width].                                *)
(***************************************************************************)
C13_SpaceOccupiedOverOwnCells ==
    call.op = "space_occupied"
        => /\ ret.kind = "space"
           /\ SameValue(ret, [num |-> field_dimens[1] * field_dimens[2]
                                          * ArraySum(call.surface),
                              den |-> CellCount(call.surface)])
           /\ NothingRun
           /\ InUnitRange(call.surface)
                  => /\ ret.num >= 0
                     /\ ret.num <= field_dimens[1] * field_dimens[2] * Scale * ret.den

(***************************************************************************)
(* C14: remove_player hands the generator a snapshot in which x, y, vx and *)
(* vy of the analysed player at the event frame are all NaN; the player    *)
(* stays defined in the stored table, so validate_inputs still succeeds    *)
(* on the same Analyzer.                                                   *)
(***************************************************************************)
C14_RemovedInCopyOnly ==
    (call.op = "remove_player" /\ ret.kind = "surface")
        => /\ \A f \in Fields : isnan(HandedRow[Col(f)])
           /\ \A f \in Fields : ~isnan(StoredRow[Col(f)])
           /\ validate_inputs = None

\* the removal changed the surface
C14_Witness ==
    /\ call.op = "remove_player"
    /\ ret.kind = "surface"
    /\ ret.surface # event_pitch_control
    /\ isnan(HandedRow[Col("vx")])

(***************************************************************************)
(* C15: a relocate_player call that passes validation emits the            *)
(* zero-velocity warning exactly when replace_velocity is true and both    *)
(* replacement components are zero; with or without the warning the call   *)
(* regenerates and returns the perturbed surface.                          *)
(***************************************************************************)
C15_WarningIffZeroReplacement ==
    (call.op = "relocate_player" /\ PlayerOnPitch)
        => /\ effects.warnings \in {0, 1}
           /\ effects.warnings = 1
                  <=> (/\ call.replace_velocity
                       /\ call.replace_x_velocity = Num(0)
                       /\ call.replace_y_velocity = Num(0))
           /\ ret.kind = "surface"
           /\ effects.generated = 1

\* the warning was emitted and the surface returned all the same
C15_Witness ==
    /\ call.op = "relocate_player"
    /\ effects.warnings = 1
    /\ ret.kind = "surface"
    /\ effects.generated = 1

\* the baseline is what the constructor generated from the stored tables
BaselineFromConstructor ==
    \E g \in {generate_pitch_control_for_event(
                  event_id, events, Deref(heap, df_dict), params,
                  GeneratorDefaults.field_dimen, GeneratorDefaults.n_grid_cells_x)} :
        /\ event_pitch_control = g.surface
        /\ xgrid = g.xgrid
        /\ ygrid = g.ygrid

\* a returned perturbed surface is the one generated, in this call, from the
\* tables this call handed over
GeneratedOnDemand ==
    (call.op \in Perturbations /\ ret.kind = "surface")
        => /\ effects.generated = 1
           /\ \E g \in {generate_pitch_control_for_event(
                            event_id, events, Deref(heap, tmp_df_dict), params,
                            field_dimens, n_grid_cells_x)} :
                  /\ ret.surface = g.surface
                  /\ ret.xgrid = g.xgrid
                  /\ ret.ygrid = g.ygrid

(***************************************************************************)
(* C16: the baseline surface is the one computed in the constructor and no *)
(* call reassigns it or any other attribute of the Analyzer; every         *)
(* successful perturbation invokes the generator once, on its own tables,  *)
(* and returns that surface: nothing is stored or reused.                  *)
(***************************************************************************)
C16_BaselineOnceSurfacesOnDemand ==
    /\ [](BaselineFromConstructor /\ GeneratedOnDemand)
    /\ [][analyzer' = analyzer]_vars

\* a successful perturbation returned a surface that is not the baseline
C16_Witness ==
    /\ call.op \in Perturbations
    /\ ret.kind = "surface"
    /\ ret.surface # event_pitch_control
    /\ effects.generated = 1

\* the outcome of a call made alone, by the sequential method
Alone(c) ==
    CASE c.op = "replace_velocity" ->
             calculate_pitch_control_replaced_velocity(
                 c.replace_x_velocity, c.replace_y_velocity)
      [] c.op = "remove_player" ->
             calculate_pitch_control_without_player
      [] c.op = "relocate_player" ->
             calculate_pitch_control_new_location(
                 c.relative_x_change, c.relative_y_change, c.replace_velocity,
                 c.replace_x_velocity, c.replace_y_velocity)

(***************************************************************************)
(* C17: when perturbation calls run concurrently on one Analyzer, under    *)
(* every interleaving of their statements each finished call has handed    *)
(* the generator the tables it would have handed over alone (its own edits *)
(* and no other call's) and has returned what it would have returned alone.*)
(***************************************************************************)
C17_ConcurrentCallsAsIfAlone ==
    threads # NoThreads
        => \A t \in ThreadIds :
               threads[t].pc \in {"done", "raised"}
                   => \E a \in {Alone(threads[t].call)} :
                          /\ threads[t].ret = a.ret
                          /\ threads[t].pc = "done"
                                 => Deref(heap, threads[t].tmp_df_dict)
                                        = Deref(a.heap, a.tmp_df_dict)

\* both calls are finished, with different edits and different surfaces
C17_Witness ==
    /\ threads # NoThreads
    /\ threads[1].pc = "done"
    /\ threads[2].pc = "done"
    /\ threads[1].call.op = "replace_velocity"
    /\ threads[2].call.op = "remove_player"
    /\ threads[1].ret # threads[2].ret

(***************************************************************************)
(* C18: none of the tables a perturbation hands to the generator, the      *)
(* analysed team's or the other team's, is the same object as a table      *)
(* stored in the Analyzer.                                                 *)
(***************************************************************************)
C18_HandedTablesAreCopies ==
    (call.op \in Perturbations /\ ret.kind = "surface")
        => \A t \in DOMAIN tmp_df_dict : \A u \in DOMAIN df_dict :
               tmp_df_dict[t] # df_dict[u]

(***************************************************************************)
(* C19: for every combination of attacking and defending arrival times,    *)
(* with nobody present on one or both teams included, the race model's     *)
(* attacking control probability lies in [0,1]; it is the value the        *)
(* generator puts into the cell, and the difference of two cells lies in   *)
(* [-1,1].                                                                 *)
(***************************************************************************)
C19_ProbabilityInUnitRange ==
    race # NoRace
        => /\ InUnitRange(<<race.cells>>)
           /\ race.stage \in {"finished", "subtract"}
                  => race.cells[Len(race.cells)]
                         = attacking_control_probability(race.att, race.def, race.prm)
           /\ race.stage = "difference"
                  => \A i \in 1..Len(race.difference) :
                         \A j \in 1..Len(race.difference[i]) :
                             race.difference[i][j] \in (0 - Scale)..Scale
           /\ InUnitRange(event_pitch_control)

\* nobody present on either team, and a cell that attackers alone reach
C19_Witness ==
    /\ race # NoRace
    /\ race.stage = "difference"
    /\ race.cells[1] = Scale
    /\ race.att = {}
    /\ race.def = {}
    /\ race.difference = <<<<Scale - Scale \div 2>>>>

Integrating == race # NoRace /\ race.stage = "integrating"
Converged == race.acc[1] + race.acc[2] >= Scale - race.prm.model_converge_tol

\* never more than max_int_time / int_dt steps, and a stopped integration
\* has converged or is at the horizon
WithinHorizon ==
    race # NoRace
        => /\ race.acc[3] <= race.prm.max_int_time \div race.prm.int_dt
           /\ race.stage \in {"finished", "subtract"}
                  => \/ Converged
                     \/ race.acc[3] = race.prm.max_int_time \div race.prm.int_dt

\* a step is taken only before convergence and before the horizon
StepsOnlyBeforeStop ==
    (Integrating /\ race'.acc[3] = race.acc[3] + 1)
        => /\ ~Converged
           /\ race.acc[3] < race.prm.max_int_time \div race.prm.int_dt

(***************************************************************************)
(* C20: the race model's integration always terminates: it stops as soon   *)
(* as the two accumulators sum to at least 1 - model_converge_tol or after *)
(* max_int_time / int_dt steps, whichever comes first, and never takes     *)
(* more steps than that.                                                   *)
(***************************************************************************)
C20_IntegrationTerminates ==
    /\ []WithinHorizon
    /\ [][StepsOnlyBeforeStop]_vars
    /\ Integrating ~> ~Integrating

\* nobody arrives: the integration ran to the horizon without converging
C20_Witness ==
    /\ race # NoRace
    /\ race.stage = "finished"
    /\ race.acc[3] = race.prm.max_int_time \div race.prm.int_dt
    /\ ~Converged

\* the arrival times of the cell's movers, and of those on the pitch only
ArrivalsOf(movers) == {time_to_reach(m, race.target, race.prm) : m \in movers}
OnPitchOf(movers) == {m \in movers : Present(m)}
\* the value of the cell the race has just finished
CellValue == race.cells[Len(race.cells)]
RaceDone == race.stage \in {"finished", "subtract"}
NobodyInReach ==
    \A t \in ArrivalsOf(race.attackers \cup race.defenders) : t > race.prm.max_int_time

(***************************************************************************)
(* C21: when no player of either team reaches the cell within the          *)
(* integration horizon, empty and all-absent rosters included, the race    *)
(* model returns exactly 0.5 for the cell, as a value and not an error.    *)
(***************************************************************************)
C21_NobodyInReachGivesHalf ==
    (RaceDone /\ NobodyInReach)
        => /\ race.acc[1] + race.acc[2] = 0
           /\ CellValue = Scale \div 2

\* both rosters hold absent movers only
C21_Witness ==
    /\ RaceDone
    /\ race.attackers = {Absent}
    /\ race.defenders = {Absent}
    /\ CellValue = Scale \div 2

(***************************************************************************)
(* C22: time_to_reach of an absent mover lies above max_int_time for every *)
(* target, and the absent mover adds nothing to either accumulator: the    *)
(* cell's value is the one the race gives for the rosters without it.      *)
(***************************************************************************)
C22_AbsentMoverNeverArrives ==
    /\ (race.stage = "snapshot" /\ Absent \in race.attackers \cup race.defenders)
           => \A target \in CellTargets :
                  time_to_reach(Absent, target, race.prm) > race.prm.max_int_time
    /\ RaceDone
           => CellValue = attacking_control_probability(
                              ArrivalsOf(OnPitchOf(race.attackers)),
                              ArrivalsOf(OnPitchOf(race.defenders)), race.prm)

\* an attacker was removed from a cell that both teams reach: the cell now
\* goes to the defender that is on the pitch
C22_Witness ==
    /\ race.stage = "subtract"
    /\ race.attackers = {Absent}
    /\ race.defenders = {Absent, At(0, 0, 0, 0)}
    /\ race.target = <<0, 0>>
    /\ race.cells[1] > 0
    /\ CellValue = 0

\* the movers of the cell that stand on its target point
OnTarget(movers) ==
    {m \in OnPitchOf(movers) : m.x.v = race.target[1] /\ m.y.v = race.target[2]}

(***************************************************************************)
(* C23: a present mover whose position is the target point has arrival     *)
(* time 0, whatever its velocity and whatever the reaction time, although  *)
(* it keeps its velocity during the reaction time.                         *)
(***************************************************************************)
C23_OnTargetArrivesAtOnce ==
    /\ race.stage = "snapshot"
           => \A m \in OnTarget(race.attackers \cup race.defenders) :
                  time_to_reach(m, race.target, race.prm) = 0
    /\ (race.stage = "integrating" /\ OnTarget(race.attackers) # {}) => 0 \in race.att
    /\ (race.stage = "integrating" /\ OnTarget(race.defenders) # {}) => 0 \in race.def

\* a running attacker on the target, with a reaction time: the race starts
\* from arrival time 0
C23_Witness ==
    /\ race.stage = "integrating"
    /\ race.prm.reaction_time > 0
    /\ race.attackers = {At(4, 0, -2, 0)}
    /\ race.target = <<4, 0>>
    /\ race.att = {0}

\* the rows of the stored snapshot at the event frame, by team
StoredRows == [t \in DOMAIN df_dict |-> heap[df_dict[t]][event_frame]]
PossessingTeam == events[event_id]["Team"]
AnalysedMover ==
    Mover(StoredRows[team_player_to_analyze], team_player_to_analyze, str(player_to_analyze))
CellPoint(i, j) == <<xgrid[i], ygrid[j]>>
CellIndices == {<<i, j>> : i \in 1..Len(xgrid), j \in 1..Len(ygrid)}

\* the analysed player is an attacker near the cell, and every attacker
\* besides it needs far more than the horizon to get there
IsolatedAt(c) ==
    /\ team_player_to_analyze = PossessingTeam
    /\ time_to_reach(AnalysedMover, CellPoint(c[1], c[2]), params) <= params.reaction_time
    /\ \A m \in OnPitch(StoredRows, {PossessingTeam}) \ {AnalysedMover} :
           time_to_reach(m, CellPoint(c[1], c[2]), params) > 2 * params.max_int_time
DefenderInReach(c) ==
    \E m \in OnPitch(StoredRows, DOMAIN StoredRows \ {PossessingTeam}) :
        time_to_reach(m, CellPoint(c[1], c[2]), params) <= params.max_int_time

Removed == call.op = "remove_player" /\ ret.kind = "surface"

(***************************************************************************)
(* C24: with a single attacker near a cell and every other attacker far    *)
(* beyond the horizon, remove_player on that attacker leaves the cell at   *)
(* 0.5 in the perturbed surface, whether or not a defender reaches the     *)
(* cell within the horizon.                                                *)
(***************************************************************************)
C24_RemovedAttackerLeavesHalf ==
    Removed => \A c \in CellIndices :
                   IsolatedAt(c) => ret.surface[c[1]][c[2]] = Scale \div 2

(***************************************************************************)
(* C24, amended: the cell is at 0.5 when no defender reaches it within the *)
(* horizon either, and at 0 when a defender does.                          *)
(***************************************************************************)
C24_RemovedAttackerLeavesCellToDefenders ==
    Removed => \A c \in CellIndices :
                   IsolatedAt(c)
                       => ret.surface[c[1]][c[2]] =
                              IF DefenderInReach(c) THEN 0 ELSE Scale \div 2

\* the attacker's own cell was the attackers' and nobody reaches it after
\* the removal
C24_Witness ==
    /\ Removed
    /\ \E c \in CellIndices :
           /\ IsolatedAt(c)
           /\ ~DefenderInReach(c)
           /\ event_pitch_control[c[1]][c[2]] = Scale
           /\ ret.surface[c[1]][c[2]] = Scale \div 2

\* the cells of the handed snapshot that belong to the analysed player at
\* the event frame
OwnCell(t, f, c) ==
    /\ t = team_player_to_analyze
    /\ f = event_frame
    /\ c \in {Col(fld) : fld \in Fields}

(***************************************************************************)
(* C25: in the snapshot a perturbation hands to the generator only fields  *)
(* of the analysed player at the event frame differ from the stored        *)
(* tables: other players, the ball, the other team's table and the other   *)
(* frames are equal; replace_velocity also keeps the player's x and y.     *)
(***************************************************************************)
C25_OnlyAnalysedPlayerEdited ==
    (call.op \in Perturbations /\ ret.kind = "surface")
        => /\ \A t \in DOMAIN df_dict : \A f \in Frames : \A c \in Columns(t) :
                  ~OwnCell(t, f, c)
                      => heap[tmp_df_dict[t]][f][c] = heap[df_dict[t]][f][c]
           /\ call.op = "replace_velocity"
                  => /\ HandedRow[Col("x")] = StoredRow[Col("x")]
                     /\ HandedRow[Col("y")] = StoredRow[Col("y")]

\* replace_velocity gave the player another velocity
C25_Witness ==
    /\ call.op = "replace_velocity"
    /\ ret.kind = "surface"
    /\ HandedRow[Col("vx")] # StoredRow[Col("vx")]
    /\ HandedRow[Col("x")] = StoredRow[Col("x")]

SameShape(a, b) == Len(a) = Len(b) /\ \A i \in 1..Len(a) : Len(a[i]) = Len(b[i])

(***************************************************************************)
(* C26: for every field_dimens and n_grid_cells_x given to the constructor *)
(* the stored baseline and grid are generated with them, as every          *)
(* perturbed surface is: baseline and perturbed surfaces have the same     *)
(* shape and grid, and the grid returned by surface_difference is the      *)
(* stored grid.                                                            *)
(***************************************************************************)
C26_BaselineOnConstructorGrid ==
    /\ xgrid = XGrid(field_dimens, n_grid_cells_x)
    /\ ygrid = YGrid(field_dimens, n_grid_cells_x)
    /\ (call.op \in Perturbations /\ ret.kind = "surface")
           => /\ SameShape(ret.surface, event_pitch_control)
              /\ ret.xgrid = xgrid
              /\ ret.ygrid = ygrid
    /\ (call.op = "surface_difference" /\ ret.kind = "difference")
           => /\ ret.xgrid = xgrid
              /\ ret.ygrid = ygrid

\* the analysed team's own surface: the attacking surface when it has
\* possession, 1 - attacking otherwise
OwnSurface(sf) ==
    IF PossessingTeam = team_player_to_analyze THEN sf
    ELSE [i \in 1..Len(sf) |-> [j \in 1..Len(sf[i]) |-> Scale - sf[i][j]]]

\* a - b for two fractions
FractionMinus(a, b) == [num |-> a.num * b.den - b.num * a.den, den |-> a.den * b.den]

(***************************************************************************)
(* C27: whichever team has possession, space_created is the analysed       *)
(* team's own occupied space in the baseline minus its own occupied space  *)
(* in the perturbed surface, the defending team's surface being            *)
(* 1 - attacking; a positive value means the own team has less space       *)
(* after the edit.                                                         *)
(***************************************************************************)
C27_SpaceCreatedIsOwnSpaceLost ==
    (call.op = "space_created" /\ ret.kind = "space")
        => \E p \in {PerturbationFor(call.kwargs)} :
               \E before \in {calculate_total_space_on_pitch_team(OwnSurface(event_pitch_control))},
                  after \in {calculate_total_space_on_pitch_team(OwnSurface(p.ret.surface))} :
                   /\ SameValue(ret, FractionMinus(before, after))
                   /\ ret.num > 0 <=> before.num > after.num

\* the defending team's player is analysed and its team loses space
C27_Witness ==
    /\ call.op = "space_created"
    /\ ret.kind = "space"
    /\ PossessingTeam # team_player_to_analyze
    /\ ret.num > 0

BadIdType == player_to_analyze.type \notin {"str", "int"}
UnknownTeam == team_player_to_analyze \notin DOMAIN df_dict
UnknownMode ==
    /\ call.op \in {"surface_difference", "space_created"}
    /\ call.kwargs.replace_function \notin ValidModes
\* the last call ran the input validation
Validating ==
    \/ call.op \in {"validate_inputs"} \cup Perturbations
    \/ /\ call.op \in {"surface_difference", "space_created"}
       /\ call.kwargs.replace_function \in ValidModes

(***************************************************************************)
(* C28: of several violated input rules one is reported, in a fixed order: *)
(* an unknown mode before any validation; then a bad id type before an     *)
(* unknown team, and an unknown team before a player not on the pitch; for *)
(* an unknown team the players on the pitch are never looked up.           *)
(***************************************************************************)
C28_ErrorPrecedence ==
    /\ UnknownMode => ret = ValueError(ModeMessage)
    /\ Validating
           => /\ BadIdType => ret = ValueError(PlayerTypeMessage)
              /\ (~BadIdType /\ UnknownTeam) => ret = ValueError(TeamMessage)
              /\ (~BadIdType /\ ~UnknownTeam
                    /\ str(player_to_analyze) \notin get_players_on_pitch)
                     => ret = ValueError(NotOnPitchMessage)

\* a float id, an unknown team and an unknown mode at once
C28_Witness ==
    /\ UnknownMode
    /\ BadIdType
    /\ UnknownTeam
    /\ ret = ValueError(ModeMessage)

PlottedNewLocation ==
    /\ call.op = "plot"
    /\ call.kwargs.replace_function = "location"
    /\ ret.kind = "figure"

(***************************************************************************)
(* C29: plot_pitch_control_difference with mode "location" hands the       *)
(* drawing layer, as the new player's marker, the position and velocity    *)
(* that were written into the perturbed snapshot from which the plotted    *)
(* difference was computed, whatever the relative changes and              *)
(* replace_velocity.                                                       *)
(***************************************************************************)
C29_MarkerIsPerturbedPlayer ==
    PlottedNewLocation
        => /\ figure.player_x_coordinate = HandedRow[Col("x")]
           /\ figure.player_y_coordinate = HandedRow[Col("y")]
           /\ figure.player_x_velocity = HandedRow[Col("vx")]
           /\ figure.player_y_velocity = HandedRow[Col("vy")]

\* the surface that is converted: the handed one, negated for a new location
Converted ==
    IF figure.handed.plotting_new_location THEN Negated(figure.handed.PPCF)
    ELSE figure.handed.PPCF
IsZero(x) == Finite(x) /\ x.num = 0
InColourRange(x) == Finite(x) /\ x.num >= 0 /\ x.num <= x.den

(***************************************************************************)
(* C30: for a difference surface with a negative minimum and a positive    *)
(* maximum, convert_pitch_control_for_cmap maps the minimum to 0, the      *)
(* value 0 to 0.5 and the maximum to 1, and every output lies in [0, 1].   *)
(***************************************************************************)
C30_CmapMapsMinZeroMax ==
    (/\ figure.stage = "drawn"
     /\ figure.handed.plotting_difference
     /\ ArrayMin(Converted).num < 0
     /\ ArrayMax(Converted).num > 0)
        => \A i \in 1..Len(Converted) : \A j \in 1..Len(Converted[i]) :
               /\ Converted[i][j] = ArrayMin(Converted) => figure.image[i][j] = Frac(0, 1)
               /\ IsZero(Converted[i][j]) => figure.image[i][j] = Frac(1, 2)
               /\ Converted[i][j] = ArrayMax(Converted) => figure.image[i][j] = Frac(1, 1)
               /\ InColourRange(figure.image[i][j])

====
